---- MODULE Spec2Model ----
(***************************************************************************)
(* A model of analyze.py (AWS tag analyzer): the paginated fetch with its   *)
(* retry counter (fetch_resource_tags), the tag filter (filter_tags), the   *)
(* CSV projection (json_to_csv), the cross-environment summaries            *)
(* (generate_summary_csv, generate_focused_summary_csv) and the main loop   *)
(* over the environments (main, process_environment_tags).                  *)
(*                                                                         *)
(* Python values are modelled as follows.  A list is a sequence, a dict is  *)
(* a function whose DOMAIN is the set of its keys, None is the string       *)
(* "<None>".  An ARN is the sequence of its colon-delimited segments, so    *)
(* arn.split(":")[2] is arn[3]; every ARN of the model has at least three   *)
(* segments.  A file name f"{env}_tags.csv" is the pair <<env, "_tags.csv">>.*)
(***************************************************************************)
EXTENDS Integers, Sequences, FiniteSets, TLC

\* ------------------------------------------------------------------ bounds

\* The longest upstream page chain, the most records on one page, the largest
\* max_retries handed to a stand-alone fetch, the most tags on one resource.
MaxPages == 2
MaxPageSize == 2
MaxRetriesBound == 3
MaxTags == 2

\* ----------------------------------------------------------- program values

DefaultMaxRetries == 3
NoToken == 0
None == "<None>"
NA == "N/A"

\* The lexicographic order of the tag keys of the model (Python's sorted()).
KeyOrder == <<"Env", "Owner", "Team">>

\* ------------------------------------------------------------ Python idioms

\* x in list
In(x, list) == \E i \in DOMAIN list : list[i] = x

\* d.get(k, default)
Get(d, k, default) == IF k \in DOMAIN d THEN d[k] ELSE default

\* set(list)
ToSet(list) == {list[i] : i \in DOMAIN list}

\* The dict d after d[k] = v.
Put(d, k, v) == (k :> v) @@ d

\* The empty dict.
EmptyDict == [k \in {} |-> None]

RECURSIVE Flatten(_)
\* list.extend over a list of lists, in order.
Flatten(lists) ==
    IF Len(lists) = 0 THEN <<>> ELSE Head(lists) \o Flatten(Tail(lists))

\* ------------------------------------------------------------------- inputs

Tag(k, v) == [Key |-> k, Value |-> v]
Resource(arn, tagList) == [ResourceARN |-> arn, Tags |-> tagList]

Arn1 == <<"arn", "x", "svc", "r1">>
Arn2 == <<"arn", "x", "db", "r2">>

\* The tags a resource may carry: one key occurs with two values, so a
\* resource can carry the same key twice.
TagPool == {Tag("Team", "core"), Tag("Team", "prod"), Tag("Env", "prod")}

SeqsUpTo(S, n) == UNION {[1..m -> S] : m \in 0..n}

TagLists == SeqsUpTo(TagPool, MaxTags)

\* The resource sets of the pure-function checks: each ARN at most once
\* (an upstream listing names a resource once), in a fixed order.
ResourceSets ==
    {Flatten(<<a, b>>) :
        a \in {<<>>} \cup {<<Resource(Arn1, t)>> : t \in TagLists},
        b \in {<<>>} \cup {<<Resource(Arn2, t)>> : t \in TagLists}}

\* The records of the stand-alone fetch: the fetch never looks inside one.
RecordPool ==
    {Resource(Arn1, <<Tag("Team", "core")>>),
     Resource(Arn2, <<Tag("Team", "prod"), Tag("Env", "prod")>>)}

Pages == SeqsUpTo(RecordPool, MaxPageSize)

\* An upstream listing: its pages in cursor order, at least one page.
Listings == UNION {[1..m -> Pages] : m \in 1..MaxPages}

\* The filter documents of the pure-function checks: every list over the
\* keys and over the values of TagPool.
KeyLists == {<<>>, <<"Team">>, <<"Env">>, <<"Team", "Env">>}
ValueLists == {<<>>, <<"core">>, <<"prod">>, <<"core", "prod">>}
FilterRules ==
    [include_keys : KeyLists, exclude_keys : KeyLists,
     include_values : ValueLists, exclude_values : ValueLists]

\* The focus keys (one no resource carries) and the exclude_values lists
\* (with and without the sentinel) of a focused json_to_csv.
FocusKeys == {"Team", "Env", "Owner"}
ExcludeLists == {v \o n : v \in ValueLists, n \in {<<>>, <<NA>>}}

\* What a second environment may hold in a summary.
OtherEnvSets ==
    {<<>>} \cup {<<r>> : r \in RecordPool \cup {Resource(Arn1, <<Tag("Owner", "core")>>)}}

\* The upstream listings of a run of main: the upstream may serve another
\* one at every fetch (a resource deleted, the pages cut differently).
R1 == Resource(Arn1, <<Tag("Team", "core")>>)
R2 == Resource(Arn2, <<Tag("Team", "prod"), Tag("Env", "prod")>>)
MainListings == {<<<<R1, R2>>>>, <<<<R1>>>>, <<<<R2>>, <<R1>>>>}

\* The filter documents of a run of main: none, a focus key, a focus key with
\* excluded values, no include_keys, an empty include_keys.
MainFilters ==
    {[k \in {} |-> None],
     [include_keys |-> <<"Team">>],
     [include_keys |-> <<"Team">>, exclude_values |-> <<"core">>],
     [exclude_keys |-> <<"Env">>],
     [include_keys |-> <<>>]}

\* The environments the credential directory holds.
EnvLists == {<<"dev">>, <<"dev", "prod">>}

VARIABLES
    \* fetch_resource_tags
    upstream,       \* the listing the upstream serves during this fetch
    next_token,     \* analyze.py:34
    resources,      \* analyze.py:33
    retries,        \* analyze.py:35
    max_retries,    \* the parameter, analyze.py:31
    fstate,         \* "idle", "running", "returned", "RuntimeError", "JSONDecodeError"
    log,            \* the outcome of every subprocess.run of this fetch, in order
    \* main and process_environment_tags
    envs,           \* credentials.keys(), in order
    filters,        \* the filter document, {} without a focus file
    idx,            \* the position of the for loop of main
    mpc,            \* where main stands; "standalone" when only a fetch runs
    environ,        \* the environment whose credentials are in os.environ
    tags,           \* env -> the local `tags` of process_environment_tags
    tag_data,       \* analyze.py:264, the dict items in insertion order
    files,          \* file name -> what was written to it
    \* the pure functions, called alone
    json_data,      \* the argument of the call
    call            \* the call made and its result

vars == <<upstream, next_token, resources, retries, max_retries, fstate, log,
          envs, filters, idx, mpc, environ, tags, tag_data, files,
          json_data, call>>

fetchVars == <<upstream, next_token, resources, retries, max_retries, fstate, log>>
mainVars == <<envs, filters, idx, environ, tags, tag_data, files>>
pureVars == <<json_data, call>>

\* ------------------------------------------------------ fetch_resource_tags

\* The page the upstream serves for a cursor: the first one without a token.
CurrentPage == IF next_token = NoToken THEN 1 ELSE next_token

\* The parsed response for the page at position c: its records, and the token
\* of the next page when there is one.
Response(c) ==
    IF c < Len(upstream)
    THEN [ResourceTagMappingList |-> upstream[c], PaginationToken |-> c + 1]
    ELSE [ResourceTagMappingList |-> upstream[c]]

\* main catches the exception and goes on with its loop.
PropagateSkip(m) == IF m = "standalone" THEN m ELSE "loop"

\* Where main stands once an exception leaves fetch_resource_tags: neither
\* process_environment_tags nor main catches it.
Propagate(m) == IF m = "standalone" THEN m ELSE "aborted"

\* The entry of fetch_resource_tags(region, max_retries=n), lines 33-35.
StartFetch(listing, n) ==
    /\ upstream' = listing
    /\ next_token' = NoToken
    /\ resources' = <<>>
    /\ retries' = 0
    /\ max_retries' = n
    /\ fstate' = "running"
    /\ log' = <<>>

\* The page's records replace the accumulated ones.
ReplaceResources(res, response) ==
    Get(response, "ResourceTagMappingList", <<>>)

\* resources after a successful, parseable call (line 63).
ExtendResources(res, response) ==
    res \o Get(response, "ResourceTagMappingList", <<>>)

\* retries after a failed call (line 53).
RetriesAfterFailure(r) == r + 1

\* A per-page counter: a page that succeeds resets it.
RetriesResetPerPage(r) == 0

\* retries after a successful call: the counter is left alone.
RetriesAfterSuccess(r) == r

\* A call exits non-zero (lines 51-57).
CallFails ==
    /\ fstate = "running"
    /\ log' = Append(log, "fail")
    /\ retries' = RetriesAfterFailure(retries)
    /\ IF retries' >= max_retries
       THEN fstate' = "RuntimeError" /\ mpc' = Propagate(mpc)
       ELSE fstate' = "running" /\ mpc' = mpc
    /\ UNCHANGED <<upstream, next_token, resources, max_retries>>
    /\ UNCHANGED mainVars
    /\ UNCHANGED pureVars

\* A call exits zero with a JSON body (lines 59-66).
CallSucceeds ==
    /\ fstate = "running"
    /\ LET response == Response(CurrentPage)
           token == Get(response, "PaginationToken", NoToken)
       IN /\ resources' = ExtendResources(resources, response)
          /\ next_token' = token
          /\ fstate' = IF token = NoToken THEN "returned" ELSE "running"
    /\ retries' = RetriesAfterSuccess(retries)
    /\ log' = Append(log, "ok")
    /\ UNCHANGED <<upstream, max_retries, mpc>>
    /\ UNCHANGED mainVars
    /\ UNCHANGED pureVars

\* The decode error is swallowed and the page requested again.
DecodeErrorRetried == "running"

\* fstate after a call that exits zero with a body json.loads rejects (67-69).
AfterDecodeError == "JSONDecodeError"

\* A call exits zero with a body that is not JSON (lines 61-62, 67-69).
CallGarbled ==
    /\ fstate = "running"
    /\ log' = Append(log, "garbled")
    /\ fstate' = AfterDecodeError
    /\ mpc' = IF fstate' = "running" THEN mpc ELSE Propagate(mpc)
    /\ UNCHANGED <<upstream, next_token, resources, retries, max_retries>>
    /\ UNCHANGED mainVars
    /\ UNCHANGED pureVars

\* -------------------------------------------------------------- filter_tags

\* An included key or value is kept without looking at the exclude lists.
tag_matches_include_wins(tag, flt) ==
    LET include_keys == Get(flt, "include_keys", <<>>)
        exclude_keys == Get(flt, "exclude_keys", <<>>)
        include_values == Get(flt, "include_values", <<>>)
        exclude_values == Get(flt, "exclude_values", <<>>)
        key == tag.Key
        value == tag.Value
    IN  /\ IF Len(include_keys) > 0 THEN In(key, include_keys)
           ELSE ~In(key, exclude_keys)
        /\ IF Len(include_values) > 0 THEN In(value, include_values)
           ELSE ~In(value, exclude_values)

\* tag_matches of filter_tags (lines 82-92), with the four lists of lines 77-80.
tag_matches(tag, flt) ==
    LET include_keys == Get(flt, "include_keys", <<>>)
        exclude_keys == Get(flt, "exclude_keys", <<>>)
        include_values == Get(flt, "include_values", <<>>)
        exclude_values == Get(flt, "exclude_values", <<>>)
        key == tag.Key
        value == tag.Value
    IN  IF Len(include_keys) > 0 /\ ~In(key, include_keys) THEN FALSE
        ELSE IF Len(exclude_keys) > 0 /\ In(key, exclude_keys) THEN FALSE
        ELSE IF Len(include_values) > 0 /\ ~In(value, include_values) THEN FALSE
        ELSE IF Len(exclude_values) > 0 /\ In(value, exclude_values) THEN FALSE
        ELSE TRUE

\* One turn of the loop of lines 95-100: filtered_tags after `resource`.
filter_step(filtered_tags, resource, flt) ==
    LET filtered_resource_tags ==
            SelectSeq(resource.Tags, LAMBDA tag : tag_matches(tag, flt))
    IN  IF Len(filtered_resource_tags) > 0
        THEN Append(filtered_tags,
                    [resource EXCEPT !.Tags = filtered_resource_tags])
        ELSE filtered_tags

RECURSIVE filter_loop(_, _, _)
filter_loop(filtered_tags, rest, flt) ==
    IF Len(rest) = 0 THEN filtered_tags
    ELSE filter_loop(filter_step(filtered_tags, Head(rest), flt), Tail(rest), flt)

\* filter_tags(tags, filters), lines 74-103.
filter_tags(tagList, flt) == filter_loop(<<>>, tagList, flt)

\* -------------------------------------------------------------- json_to_csv

\* all_tags of lines 108-111.
AllTagKeys(data) ==
    UNION {{data[i].Tags[j].Key : j \in DOMAIN data[i].Tags} : i \in DOMAIN data}

\* sorted(list(all_tags)), line 113.
SortedTags(data) == SelectSeq(KeyOrder, LAMBDA k : k \in AllTagKeys(data))

\* Only the first tag of a key writes its value.
assign_tag_first(tag_values, tag) ==
    IF tag.Key \in DOMAIN tag_values /\ tag_values[tag.Key] = NA
    THEN [tag_values EXCEPT ![tag.Key] = tag.Value]
    ELSE tag_values

\* tag_values after one tag of the resource (lines 127-128).
assign_tag(tag_values, tag) ==
    IF tag.Key \in DOMAIN tag_values
    THEN [tag_values EXCEPT ![tag.Key] = tag.Value]
    ELSE tag_values

RECURSIVE assign_tags(_, _)
\* The loop of lines 126-128 over the resource's tags, in order.
assign_tags(tag_values, rest) ==
    IF Len(rest) = 0 THEN tag_values
    ELSE assign_tags(assign_tag(tag_values, Head(rest)), Tail(rest))

\* tag_values of one resource, lines 125-128.
TagValues(resource, sorted_tags) ==
    assign_tags([k \in ToSet(sorted_tags) |-> NA], resource.Tags)

\* The excluded resource keeps its row, with an empty cell.
focused_rows_blanked(row, value, exclude_values) ==
    IF In(value, exclude_values) THEN <<Append(row, "")>> ELSE <<Append(row, value)>>

\* The rows one resource adds in focused mode (lines 130-133, 137): none when
\* its value for the focus key is in exclude_values.
focused_rows(row, value, exclude_values) ==
    IF In(value, exclude_values) THEN <<>> ELSE <<Append(row, value)>>

\* The rows one resource adds to csv_rows, lines 120-137.
csv_rows_of(resource, sorted_tags, focus_key, exclude_values) ==
    LET resource_arn == resource.ResourceARN
        resource_type == resource_arn[3]
        row == <<resource_arn, resource_type>>
        tag_values == TagValues(resource, sorted_tags)
    IN  IF focus_key # None
        THEN focused_rows(row, Get(tag_values, focus_key, NA), exclude_values)
        ELSE <<row \o [i \in DOMAIN sorted_tags |-> tag_values[sorted_tags[i]]]>>

\* What json_to_csv writes (lines 105-143): the header and the rows.
json_to_csv(data, focus_key, exclude_values) ==
    LET sorted_tags == SortedTags(data)
    IN  [header |-> IF focus_key # None
                    THEN <<"Resource ARN", "Resource Type", focus_key>>
                    ELSE <<"Resource ARN", "Resource Type">> \o sorted_tags,
         rows |-> Flatten([i \in DOMAIN data |->
                     csv_rows_of(data[i], sorted_tags, focus_key, exclude_values)])]

\* ----------------------------------------------------- generate_summary_csv

\* Every tag of every resource of every environment, in the order the loops
\* of lines 149-152 meet them.
ScanTags(td) ==
    Flatten([i \in DOMAIN td |->
        Flatten([r \in DOMAIN td[i].tags |->
            [t \in DOMAIN td[i].tags[r].Tags |->
                [Key |-> td[i].tags[r].Tags[t].Key,
                 env |-> td[i].env,
                 Value |-> td[i].tags[r].Tags[t].Value]]])])

\* all_tags after line 152 for one tag: `order` is the insertion order of
\* the keys of the defaultdict, `map` its content.
add_tag(all_tags, t) ==
    LET byEnv == Get(all_tags.map, t.Key, EmptyDict)
        seen == Get(byEnv, t.env, {})
    IN  [order |-> IF t.Key \in DOMAIN all_tags.map
                   THEN all_tags.order
                   ELSE Append(all_tags.order, t.Key),
         map |-> Put(all_tags.map, t.Key, Put(byEnv, t.env, seen \cup {t.Value}))]

RECURSIVE add_tags(_, _)
add_tags(all_tags, rest) ==
    IF Len(rest) = 0 THEN all_tags
    ELSE add_tags(add_tag(all_tags, Head(rest)), Tail(rest))

\* A key seen anywhere is marked present everywhere.
presence_anywhere(env, envsOfKey) ==
    IF DOMAIN envsOfKey # {} THEN "yes" ELSE "no"

\* The cell of one environment in the row of a key (line 162).
presence(env, envsOfKey) == IF env \in DOMAIN envsOfKey THEN "yes" ELSE "no"

\* The rows generate_summary_csv writes (lines 145-168), one per key of
\* all_tags in insertion order.
generate_summary_csv(td) ==
    LET all_tags == add_tags([order |-> <<>>, map |-> EmptyDict], ScanTags(td))
        envNames == {td[i].env : i \in DOMAIN td}
    IN  [n \in DOMAIN all_tags.order |->
            LET tag == all_tags.order[n]
                envsOfKey == all_tags.map[tag]
            IN  [TagKey |-> tag,
                 present |-> [env \in envNames |-> presence(env, envsOfKey)],
                 PossibleValues |->
                     UNION {envsOfKey[e] : e \in DOMAIN envsOfKey}]]

\* --------------------------------------------- generate_focused_summary_csv

\* has_focused_tag of lines 195-200.
has_focused_tag(resource, flt) ==
    LET include_keys == ToSet(Get(flt, "include_keys", <<>>))
        exclude_keys == ToSet(Get(flt, "exclude_keys", <<>>))
        include_values == ToSet(Get(flt, "include_values", <<>>))
        exclude_values == ToSet(Get(flt, "exclude_values", <<>>))
    IN  \E j \in DOMAIN resource.Tags :
            LET key == resource.Tags[j].Key
                value == resource.Tags[j].Value
            IN  /\ key \in include_keys \/ value \in include_values
                /\ key \notin exclude_keys /\ value \notin exclude_values

\* The rows generate_focused_summary_csv writes (lines 170-217), one per
\* environment.
generate_focused_summary_csv(td, flt) ==
    [i \in DOMAIN td |->
        LET focused == {r \in DOMAIN td[i].tags : has_focused_tag(td[i].tags[r], flt)}
        IN  [Environment |-> td[i].env,
             TotalResources |-> Len(td[i].tags),
             ResourcesWithFocusedTags |-> Cardinality(focused),
             ResourcesMissingFocusedTags |-> Len(td[i].tags) - Cardinality(focused)]]

\* ------------------------------------------ main, process_environment_tags

\* `if filters:` of lines 242 and 280.
Truthy(d) == DOMAIN d # {}

\* The file names of lines 239, 244, 277 and 282.
TagsCsv(env) == <<env, "_tags.csv">>
FocusedTagsCsv(env) == <<env, "_focused_tags.csv">>
SummaryCsv == <<"summary", "_tags.csv">>
FocusedSummaryCsv == <<"focused_summary", "_tags.csv">>

\* The resource set process_environment_tags hands to json_to_csv (lines
\* 236, 240, 245): the fetched one, as it is.
ProjectedSet(fetched, flt) == fetched

\* The for loop of main enters process_environment_tags for the next
\* environment, which sets its credentials and starts its fetch (272-273,
\* 230-236).
ProcessEnvironmentStart ==
    /\ mpc = "loop"
    /\ idx <= Len(envs)
    /\ environ' = envs[idx]
    /\ \E listing \in MainListings : StartFetch(listing, DefaultMaxRetries)
    /\ mpc' = "process_fetch"
    /\ UNCHANGED <<envs, filters, idx, tags, tag_data, files>>
    /\ UNCHANGED pureVars

\* The fetch of process_environment_tags returned: the reports are written
\* (lines 236-245).  filters.get('include_keys', [None])[0] raises IndexError
\* on an empty include_keys, after the full report was written.
ProcessEnvironmentReports ==
    /\ mpc = "process_fetch"
    /\ fstate = "returned"
    /\ LET env == envs[idx]
           data == ProjectedSet(resources, filters)
           include_keys == Get(filters, "include_keys", <<None>>)
           withFull == Put(files, TagsCsv(env), json_to_csv(data, None, <<>>))
       IN  /\ tags' = Put(tags, env, resources)
           /\ IF ~Truthy(filters)
              THEN files' = withFull /\ mpc' = "process_returned"
              ELSE IF Len(include_keys) = 0
              THEN files' = withFull /\ mpc' = "aborted"
              ELSE /\ files' = Put(withFull, FocusedTagsCsv(env),
                                   json_to_csv(data, include_keys[1],
                                               Get(filters, "exclude_values", <<>>)))
                   /\ mpc' = "process_returned"
    /\ fstate' = "idle"
    /\ UNCHANGED <<upstream, next_token, resources, retries, max_retries, log>>
    /\ UNCHANGED <<envs, filters, idx, environ, tag_data>>
    /\ UNCHANGED pureVars

\* main starts its own fetch of the same region (line 274).
MainFetchStart ==
    /\ mpc = "process_returned"
    /\ \E listing \in MainListings : StartFetch(listing, DefaultMaxRetries)
    /\ mpc' = "main_fetch"
    /\ UNCHANGED mainVars
    /\ UNCHANGED pureVars

\* The fetch of main returned: tag_data[env] is set and the loop goes on
\* (line 274, 272).
StoreTagData ==
    /\ mpc = "main_fetch"
    /\ fstate = "returned"
    /\ tag_data' = Append(tag_data, [env |-> envs[idx], tags |-> resources])
    /\ idx' = idx + 1
    /\ mpc' = "loop"
    /\ fstate' = "idle"
    /\ UNCHANGED <<upstream, next_token, resources, retries, max_retries, log>>
    /\ UNCHANGED <<envs, filters, environ, tags, files>>
    /\ UNCHANGED pureVars

\* After the loop: the summary, and the focused summary when there is a
\* filter document (lines 276-283).
Aggregate ==
    /\ mpc = "loop"
    /\ idx > Len(envs)
    /\ LET withSummary == Put(files, SummaryCsv, generate_summary_csv(tag_data))
       IN  files' = IF Truthy(filters)
                    THEN Put(withSummary, FocusedSummaryCsv,
                             generate_focused_summary_csv(tag_data, filters))
                    ELSE withSummary
    /\ mpc' = "done"
    /\ UNCHANGED fetchVars
    /\ UNCHANGED <<envs, filters, idx, environ, tags, tag_data>>
    /\ UNCHANGED pureVars

\* ---------------------------------------------------------------- the specs

IdleMain ==
    /\ envs = <<>>
    /\ filters = EmptyDict
    /\ idx = 1
    /\ environ = None
    /\ tags = EmptyDict
    /\ tag_data = <<>>
    /\ files = EmptyDict

IdleFetch ==
    /\ upstream = <<>>
    /\ next_token = NoToken
    /\ resources = <<>>
    /\ retries = 0
    /\ max_retries = DefaultMaxRetries
    /\ fstate = "idle"
    /\ log = <<>>

IdlePure ==
    /\ json_data = <<>>
    /\ call = [op |-> "none"]

\* A fetch alone: any listing, any max_retries of 1..MaxRetriesBound.
InitFetch ==
    /\ upstream \in Listings
    /\ max_retries \in 1..MaxRetriesBound
    /\ next_token = NoToken
    /\ resources = <<>>
    /\ retries = 0
    /\ fstate = "running"
    /\ log = <<>>
    /\ mpc = "standalone"
    /\ IdleMain
    /\ IdlePure

NextFetch == CallFails \/ CallSucceeds \/ CallGarbled

SpecFetch == InitFetch /\ [][NextFetch]_vars


\* A run of main over the environments, with or without a filter document.
Init ==
    /\ envs \in EnvLists
    /\ filters \in MainFilters
    /\ idx = 1
    /\ mpc = "loop"
    /\ environ = None
    /\ tags = EmptyDict
    /\ tag_data = <<>>
    /\ files = EmptyDict
    /\ IdleFetch
    /\ IdlePure

Next ==
    \/ ProcessEnvironmentStart
    \/ CallFails
    \/ CallSucceeds
    \/ CallGarbled
    \/ ProcessEnvironmentReports
    \/ MainFetchStart
    \/ StoreTagData
    \/ Aggregate

Spec == Init /\ [][Next]_vars
\* One call of a pure function on any resource set of the bounds.
InitPure ==
    /\ json_data \in ResourceSets
    /\ call = [op |-> "none"]
    /\ mpc = "pure"
    /\ IdleFetch
    /\ IdleMain

CallFilterTags ==
    /\ call.op = "none"
    /\ \E flt \in FilterRules :
          call' = [op |-> "filter_tags", filters |-> flt,
                   result |-> filter_tags(json_data, flt)]
    /\ UNCHANGED <<json_data, mpc>>
    /\ UNCHANGED fetchVars
    /\ UNCHANGED mainVars

\* json_to_csv(json_data, csv_filename), full mode.
CallJsonToCsvFull ==
    /\ call.op = "none"
    /\ call' = [op |-> "json_to_csv", focus_key |-> None, exclude_values |-> <<>>,
                result |-> json_to_csv(json_data, None, <<>>)]
    /\ UNCHANGED <<json_data, mpc>>
    /\ UNCHANGED fetchVars
    /\ UNCHANGED mainVars

\* json_to_csv(json_data, csv_filename, focus_key=k, exclude_values=x).
CallJsonToCsvFocused ==
    /\ call.op = "none"
    /\ \E k \in FocusKeys, x \in ExcludeLists :
          call' = [op |-> "json_to_csv", focus_key |-> k, exclude_values |-> x,
                   result |-> json_to_csv(json_data, k, x)]
    /\ UNCHANGED <<json_data, mpc>>
    /\ UNCHANGED fetchVars
    /\ UNCHANGED mainVars

\* generate_summary_csv over two environments, json_data the first one's.
CallGenerateSummary ==
    /\ call.op = "none"
    /\ \E other \in OtherEnvSets :
          LET td == <<[env |-> "dev", tags |-> json_data],
                      [env |-> "prod", tags |-> other]>>
          IN  call' = [op |-> "generate_summary_csv", tag_data |-> td,
                       result |-> generate_summary_csv(td)]
    /\ UNCHANGED <<json_data, mpc>>
    /\ UNCHANGED fetchVars
    /\ UNCHANGED mainVars

NextPure ==
    CallFilterTags \/ CallJsonToCsvFull \/ CallJsonToCsvFocused \/ CallGenerateSummary

SpecPure == InitPure /\ [][NextPure]_vars

\* ------------------------------------------------- claims about the fetch

NumFail == Cardinality({i \in DOMAIN log : log[i] = "fail"})
NumOk == Cardinality({i \in DOMAIN log : log[i] = "ok"})
NumGarbled == Cardinality({i \in DOMAIN log : log[i] = "garbled"})

\* C1: the fetch keeps one retry counter, never reset by a successful page:
\* it raises its terminal error exactly when the number of failed calls of
\* the whole fetch reaches max_retries, whatever successes lie in between,
\* and it returns only when fewer than max_retries calls failed in total.
C1_SharedRetryBudget ==
    /\ retries = NumFail
    /\ (fstate = "RuntimeError") <=> (NumFail = max_retries)
    /\ fstate = "RuntimeError" => log[Len(log)] = "fail"
    /\ fstate \in {"running", "returned"} => NumFail < max_retries

\* Two failures on different pages and a third one exhaust a budget of 3.
C1_Witness ==
    /\ fstate = "RuntimeError"
    /\ max_retries = 3
    /\ log = <<"fail", "ok", "fail", "fail">>

\* C2: a fetch that returns holds the records of every page of the chain,
\* in arrival order, each page exactly once; while it runs it holds exactly
\* the pages before the cursor, so a failed call changes neither the cursor
\* nor the records, and the loop stops at the first page without a token.
C2_ResultIsPageConcatenation ==
    /\ fstate = "returned" =>
          /\ resources = Flatten(upstream)
          /\ NumOk = Len(upstream)
    /\ fstate = "running" =>
          /\ resources = Flatten(SubSeq(upstream, 1, NumOk))
          /\ CurrentPage = NumOk + 1
          /\ NumOk < Len(upstream)

\* A two-page fetch with a retry on each page returns at least 3 records.
C2_Witness ==
    /\ fstate = "returned"
    /\ log = <<"fail", "ok", "fail", "ok">>
    /\ Len(resources) >= 3

\* C3: a call that exits zero with an unparseable body ends the fetch at
\* once: the retry counter does not count it, the records and the cursor
\* stay as they were, and no call follows it (it is the last entry of the
\* log and the only one of its kind), whatever budget or pages remain.
C3_DecodeErrorIsFatal ==
    /\ (fstate = "JSONDecodeError") <=> (NumGarbled > 0)
    /\ NumGarbled > 0 =>
          /\ NumGarbled = 1
          /\ log[Len(log)] = "garbled"
          /\ retries = NumFail
          /\ resources = Flatten(SubSeq(upstream, 1, NumOk))

\* An unparseable second page, after one page fetched, with budget left.
C3_Witness ==
    /\ fstate = "JSONDecodeError"
    /\ NumOk = 1
    /\ Len(resources) > 0
    /\ retries + 1 < max_retries

\* ---------------------------------------- claims about the pure functions

\* The tag_matches of the filter rule, over the rule's four sets.
RuleMatches(tag, flt) ==
    /\ ToSet(flt.include_keys) = {} \/ tag.Key \in ToSet(flt.include_keys)
    /\ tag.Key \notin ToSet(flt.exclude_keys)
    /\ ToSet(flt.include_values) = {} \/ tag.Value \in ToSet(flt.include_values)
    /\ tag.Value \notin ToSet(flt.exclude_values)

\* C7: filter_tags(R, rule) is the subsequence of the resources of R with at
\* least one tag satisfying tag_matches, each with exactly its matching
\* tags, all in the original order; so no output resource has an empty tag
\* list and a key or value both included and excluded is excluded.
C7_FilterKeepsMatchingTags ==
    call.op = "filter_tags" =>
        LET flt == call.filters
            out == call.result
            survivors ==
                SelectSeq(json_data, LAMBDA r :
                    \E j \in DOMAIN r.Tags : RuleMatches(r.Tags[j], flt))
        IN  /\ Len(out) = Len(survivors)
            /\ \A i \in DOMAIN out :
                  /\ out[i].ResourceARN = survivors[i].ResourceARN
                  /\ out[i].Tags =
                        SelectSeq(survivors[i].Tags, LAMBDA t : RuleMatches(t, flt))
                  /\ Len(out[i].Tags) > 0
                  /\ \A j \in DOMAIN out[i].Tags :
                        /\ ~In(out[i].Tags[j].Key, flt.exclude_keys)
                        /\ ~In(out[i].Tags[j].Value, flt.exclude_values)

\* Team is included and excluded: of two resources the one with only Team
\* tags is dropped and the other keeps its Env tag alone.
C7_Witness ==
    /\ call.op = "filter_tags"
    /\ call.filters.include_keys = <<"Team", "Env">>
    /\ call.filters.exclude_keys = <<"Team">>
    /\ Len(json_data) = 2
    /\ Len(json_data[2].Tags) = 2
    /\ Len(call.result) = 1
    /\ call.result[1].Tags = <<Tag("Env", "prod")>>

\* The positions of the tags of a resource that carry a key.
Carrying(r, k) == {j \in DOMAIN r.Tags : r.Tags[j].Key = k}

FirstValue(r, k) ==
    IF Carrying(r, k) = {} THEN NA
    ELSE r.Tags[CHOOSE j \in Carrying(r, k) : \A o \in Carrying(r, k) : j <= o].Value

LastValue(r, k) ==
    IF Carrying(r, k) = {} THEN NA
    ELSE r.Tags[CHOOSE j \in Carrying(r, k) : \A o \in Carrying(r, k) : j >= o].Value

\* The value of a key on a resource, the first or the last tag deciding.
Resolve(r, k, which) == IF which = "first" THEN FirstValue(r, k) ELSE LastValue(r, k)

\* The cells json_to_csv wrote, against a way of resolving a key's value:
\* in full mode row i is resource i and its cell for each column's key is
\* the resolved value; in focused mode each row's single value is the
\* resolved value of the resource the row names.
CellsResolvedBy(which) ==
    call.op = "json_to_csv" =>
        LET out == call.result IN
        IF call.focus_key = None
        THEN /\ Len(out.rows) = Len(json_data)
             /\ \A i \in DOMAIN out.rows : \A c \in DOMAIN out.header :
                   c > 2 => out.rows[i][c] = Resolve(json_data[i], out.header[c], which)
        ELSE \A i \in DOMAIN out.rows :
                \E n \in DOMAIN json_data :
                    /\ json_data[n].ResourceARN = out.rows[i][1]
                    /\ out.rows[i][3] = Resolve(json_data[n], call.focus_key, which)

\* C5 as stated: the value written for a key a resource carries more than
\* once is the value of the first tag with that key; "N/A" when absent.
C5_FirstMatchWins == CellsResolvedBy("first")

\* C5 amended: the value written for a key a resource carries more than once
\* is the value of the last tag with that key; "N/A" when absent.
C5_LastMatchWins == CellsResolvedBy("last")

\* A resource with Team=core then Team=prod, and one without Team.
C5_Witness ==
    /\ call.op = "json_to_csv"
    /\ call.focus_key = None
    /\ Len(json_data) = 2
    /\ json_data[1].Tags = <<Tag("Team", "core"), Tag("Team", "prod")>>
    /\ json_data[2].Tags = <<Tag("Env", "prod")>>
    /\ call.result.rows[1] = <<Arn1, "svc", NA, "prod">>
    /\ call.result.rows[2] = <<Arn2, "db", "prod", NA>>

\* C8: in focused mode the rows are the resources whose resolved value for
\* the focus key ("N/A" when the resource lacks the key) is not in
\* exclude_values, in input order, each with one value column; their number
\* is the number of such resources: an excluded resource has no row at all.
C8_FocusedRowsOmitExcluded ==
    (call.op = "json_to_csv" /\ call.focus_key # None) =>
        LET out == call.result
            kept == SelectSeq(json_data, LAMBDA r :
                        LastValue(r, call.focus_key) \notin ToSet(call.exclude_values))
        IN  /\ out.header = <<"Resource ARN", "Resource Type", call.focus_key>>
            /\ Len(out.rows) = Len(kept)
            /\ Len(out.rows) =
                  Cardinality({n \in DOMAIN json_data :
                      LastValue(json_data[n], call.focus_key)
                          \notin ToSet(call.exclude_values)})
            /\ \A i \in DOMAIN out.rows :
                  out.rows[i] = <<kept[i].ResourceARN, kept[i].ResourceARN[3],
                                  LastValue(kept[i], call.focus_key)>>

\* The sentinel is excluded: the resource without the focus key has no row,
\* the other one keeps its row.
C8_Witness ==
    /\ call.op = "json_to_csv"
    /\ call.focus_key = "Team"
    /\ call.exclude_values = <<"core", NA>>
    /\ Len(json_data) = 2
    /\ Carrying(json_data[1], "Team") = {}
    /\ call.result.rows = <<<<Arn2, "db", "prod">>>>

\* The tag keys on the resources of the environments of a tag_data.
KeysOf(resourceSet) ==
    UNION {{resourceSet[i].Tags[j].Key : j \in DOMAIN resourceSet[i].Tags} :
              i \in DOMAIN resourceSet}

\* C9: every tag key on any resource of any environment has exactly one
\* summary row, no row has a key that occurs nowhere, and a row marks an
\* environment "yes" exactly when a resource of that environment carries
\* the key, "no" otherwise.
C9_SummaryRowPerKey ==
    call.op = "generate_summary_csv" =>
        LET td == call.tag_data
            rows == call.result
            allKeys == UNION {KeysOf(td[i].tags) : i \in DOMAIN td}
        IN  /\ \A k \in allKeys :
                  Cardinality({n \in DOMAIN rows : rows[n].TagKey = k}) = 1
            /\ \A n \in DOMAIN rows : rows[n].TagKey \in allKeys
            /\ \A n \in DOMAIN rows : \A i \in DOMAIN td :
                  rows[n].present[td[i].env] =
                      IF rows[n].TagKey \in KeysOf(td[i].tags) THEN "yes" ELSE "no"

\* Three keys over two environments, one of them in one environment only.
C9_Witness ==
    /\ call.op = "generate_summary_csv"
    /\ Len(call.result) = 3
    /\ \E n \in DOMAIN call.result :
          /\ call.result[n].TagKey = "Owner"
          /\ call.result[n].present["dev"] = "no"
          /\ call.result[n].present["prod"] = "yes"
    /\ \E n \in DOMAIN call.result :
          /\ call.result[n].present["dev"] = "yes"
          /\ call.result[n].present["prod"] = "no"

\* ------------------------------------------------ claims about a run of main

FetchErrors == {"RuntimeError", "JSONDecodeError"}

\* The environments after the one the loop stands at.
LaterEnvs == {envs[j] : j \in {n \in DOMAIN envs : n > idx}}

\* What holds in every state of a run, for C6.
C6_AbortState ==
    /\ fstate \in FetchErrors => mpc = "aborted"
    /\ mpc = "aborted" =>
          /\ SummaryCsv \notin DOMAIN files
          /\ FocusedSummaryCsv \notin DOMAIN files
          /\ environ = envs[idx]
          /\ \A e \in LaterEnvs :
                /\ e \notin DOMAIN tags
                /\ TagsCsv(e) \notin DOMAIN files
                /\ FocusedTagsCsv(e) \notin DOMAIN files
                /\ \A i \in DOMAIN tag_data : tag_data[i].env # e
    /\ (SummaryCsv \in DOMAIN files \/ FocusedSummaryCsv \in DOMAIN files) =>
          /\ mpc = "done"
          /\ fstate \notin FetchErrors
          /\ \A j \in DOMAIN envs :
                /\ envs[j] \in DOMAIN tags
                /\ \E i \in DOMAIN tag_data : tag_data[i].env = envs[j]

\* C6: a fetch that ends in a terminal error (budget exhausted, unparseable
\* body) aborts the run there: no later environment is loaded, fetched or
\* projected, neither summary is ever written, and nothing happens after
\* the abort; a summary exists only when both fetches of every environment
\* returned.
C6_FetchErrorAbortsRun ==
    /\ []C6_AbortState
    /\ [][mpc = "aborted" => UNCHANGED vars]_vars

\* The second fetch of the first of two environments exhausts its budget:
\* the first environment's report exists, nothing of the second does.
C6_Witness ==
    /\ mpc = "aborted"
    /\ fstate = "RuntimeError"
    /\ Len(envs) = 2
    /\ idx = 1
    /\ TagsCsv("dev") \in DOMAIN files
    /\ TagsCsv("prod") \notin DOMAIN files

\* C4: with a filter rule, an environment's full report is the projection
\* of filter(fetched set, rule), not of the fetched set: a tag the rule
\* strips is no column of it and a resource left without tags has no row.
C4_ReportProjectsFilteredSet ==
    \A e \in DOMAIN tags :
        Truthy(filters) =>
            files[TagsCsv(e)] = json_to_csv(filter_tags(tags[e], filters), None, <<>>)

\* C10: the resource set a summary is computed from is, for every
\* environment, the one projected into that environment's report.
C10_SummaryUsesProjectedSet ==
    \A i \in DOMAIN tag_data : tag_data[i].tags = tags[tag_data[i].env]

====
